---------------------------- MODULE Spec2Model ----------------------------
(***************************************************************************)
(* Model of extract_excerpts.py: the location resolver                     *)
(* (compute_location_for_seg, _first_lb_child_before_content) and the      *)
(* collection loop (process_tei_files).                                    *)
(*                                                                         *)
(* An XML source is a sequence of tokens; Children/MakeNode turn it into   *)
(* the lxml tree the code walks: every node has a tag, attributes, a .text *)
(* (the character data before its first child), a .tail (the character     *)
(* data after its end tag, up to the next sibling) and its children.       *)
(* Elements are referred to by their ordinal in document order (0 is       *)
(* Python's None).                                                         *)
(***************************************************************************)
EXTENDS Naturals, Sequences, FiniteSets, TLC

VARIABLES
    doc,        \* resolver: the parsed document holding the segment
    seg,        \* resolver: ordinal of the <seg> passed to compute_location_for_seg
    pc,         \* resolver: position inside compute_location_for_seg
    lb,         \* resolver: local lb (ordinal of an element, 0 for None)
    text_before_internal_lb,  \* resolver: local of the same name
    location,   \* resolver: the returned label
    tei_repo,   \* collector: the input files
    fi,         \* collector: index of the file the outer loop is at
    seg_elements, \* collector: the excerpt segments of that file (ordinals)
    si,         \* collector: number of them the inner loop has handled
    cpc,        \* collector: position inside process_tei_files
    excerpts,   \* collector: the output record sequence
    out_file    \* collector: the rows written to data/excerpts.csv

vars == <<doc, seg, pc, lb, text_before_internal_lb, location,
          tei_repo, fi, seg_elements, si, cpc, excerpts, out_file>>

----------------------------------------------------------------------------
(* Bounds of the explored inputs.                                          *)

\* most tokens directly inside a segment
MaxItems == 3
\* most files in one run of the collector
MaxFiles == 2
\* most excerpt segments in the files of one run, all files together
MaxSegs == 3

----------------------------------------------------------------------------
(* Python values.                                                          *)

\* dict.get() of an absent key; falsy like the empty string
None == "<None>"

Falsy(v) == v = None \/ v = ""

Get(a, k) == IF k \in DOMAIN a THEN a[k] ELSE None

NoAttrs == <<>>

\* character data is a sequence of one-character strings
IsSpace(ch) == ch \in {" ", "\n", "\t"}

RECURSIVE LStrip(_)
LStrip(s) == IF s = <<>> THEN <<>>
             ELSE IF IsSpace(Head(s)) THEN LStrip(Tail(s)) ELSE s

RECURSIVE RStrip(_)
RStrip(s) == IF s = <<>> THEN <<>>
             ELSE IF IsSpace(s[Len(s)]) THEN RStrip(SubSeq(s, 1, Len(s) - 1)) ELSE s

\* str.strip()
Strip(s) == RStrip(LStrip(s))

----------------------------------------------------------------------------
(* XML sources (tokens) and the tree etree.parse builds from them.         *)

Tok(t, s, a, c) == [t |-> t, s |-> s, a |-> a, c |-> c]

Text(s)      == Tok("text", s, NoAttrs, <<>>)
Lb(a)        == Tok("lb", <<>>, a, <<>>)
Pb           == Tok("pb", <<>>, NoAttrs, <<>>)
Milestone    == Tok("milestone", <<>>, NoAttrs, <<>>)
Note(c)      == Tok("note", <<>>, NoAttrs, c)
Hi(c)        == Tok("hi", <<>>, NoAttrs, c)
Comment(s)   == Tok("comment", s, NoAttrs, <<>>)
PI(s)        == Tok("pi", s, NoAttrs, <<>>)
EntityRef    == Tok("entity", <<"&", "e", ";">>, NoAttrs, <<>>)
Seg(a, c)    == Tok("seg", <<>>, a, c)

\* the character data at the head of a content, up to its first non-text token
RECURSIVE LeadingText(_)
LeadingText(c) ==
    IF c = <<>> \/ Head(c).t # "text" THEN <<>>
    ELSE Head(c).s \o LeadingText(Tail(c))

Kind(t) == IF t \in {"comment", "pi", "entity"} THEN t ELSE "element"

RECURSIVE SizeAll(_)
\* number of nodes of the subtrees kids
SizeAll(kids) == IF kids = <<>> THEN 0 ELSE Head(kids).size + SizeAll(Tail(kids))

RECURSIVE Children(_)
RECURSIVE MakeNode(_, _)
\* size: the number of nodes of the subtree, kept with the node
MakeNode(tok, tail) ==
    LET kids == Children(tok.c)
    IN [kind |-> Kind(tok.t),
        tag  |-> tok.t,
        a    |-> tok.a,
        text |-> IF Kind(tok.t) = "element" THEN LeadingText(tok.c) ELSE tok.s,
        tail |-> tail,
        kids |-> kids,
        size |-> 1 + SizeAll(kids)]

Children(c) ==
    IF c = <<>> THEN <<>>
    ELSE IF Head(c).t = "text" THEN Children(Tail(c))
    ELSE <<MakeNode(Head(c), LeadingText(Tail(c)))>> \o Children(Tail(c))

\* etree.parse of a well-formed file: the root <TEI> element
Parse(body) == MakeNode(Tok("TEI", <<>>, NoAttrs, body), <<>>)

\* element.iter(): the element, then its descendants, in document order;
\* comments, processing instructions and entity references included
RECURSIVE Iter(_)
RECURSIVE IterAll(_)
Iter(node) == <<node>> \o IterAll(node.kids)

IterAll(kids) == IF kids = <<>> THEN <<>> ELSE Iter(Head(kids)) \o IterAll(Tail(kids))

\* the nodes of a document in document order; an element is referred to by
\* its index in this list
DocOrder(root) == Iter(root)

\* ordinals of the descendants of the element at ordinal e
Descendants(d, e) == (e + 1) .. (e + d[e].size - 1)

\* ordinal of the parent of the node at ordinal i (0 for the root)
Parent(d, i) ==
    LET anc == {j \in 1 .. (i - 1) : i \in Descendants(d, j)}
    IN IF anc = {} THEN 0 ELSE CHOOSE j \in anc : \A k \in anc : k <= j

\* a set of ordinals as a list in document order
RECURSIVE Sorted(_)
Sorted(S) ==
    IF S = {} THEN <<>>
    ELSE LET m == CHOOSE x \in S : \A y \in S : x <= y
         IN <<m>> \o Sorted(S \ {m})

\* isinstance(node.tag, str): false for comments, PIs and entity references,
\* whose .tag is a factory function
IsStrTag(node) == node.kind = "element"

\* the tags of the modelled vocabulary are those of one namespace;
\* "lb" is the only one of them that ends in "lb"
EndsWithLb(node) == node.tag = "lb"

IsTeiLb(node) == node.kind = "element" /\ node.tag = "lb"

----------------------------------------------------------------------------
(* XPath queries of the code, each returning a list of ordinals in         *)
(* document order.                                                         *)

\* seg.xpath("preceding::tei:lb[1]"): the preceding axis holds the elements
\* before e in document order that are not its ancestors; [1] on this
\* reverse axis is the nearest
XPathPrecedingLb1(d, e) ==
    LET P == {i \in 1 .. (e - 1) : IsTeiLb(d[i]) /\ e \notin Descendants(d, i)}
    IN IF P = {} THEN <<>> ELSE <<CHOOSE i \in P : \A j \in P : j <= i>>

\* seg.xpath(".//tei:lb[1]"): every lb below e that is the first lb child
\* of its parent
XPathDescLbFirst(d, e) ==
    Sorted({i \in Descendants(d, e) :
              /\ IsTeiLb(d[i])
              /\ ~ \E k \in Descendants(d, e) :
                     k < i /\ IsTeiLb(d[k]) /\ Parent(d, k) = Parent(d, i)})

\* seg.xpath(".//tei:lb[last()]"): every lb below e that is the last lb
\* child of its parent
XPathDescLbLast(d, e) ==
    Sorted({i \in Descendants(d, e) :
              /\ IsTeiLb(d[i])
              /\ ~ \E k \in Descendants(d, e) :
                     k > i /\ IsTeiLb(d[k]) /\ Parent(d, k) = Parent(d, i)})

\* the children of e, in order (for elem in element)
ChildOrds(d, e) == Sorted({i \in Descendants(d, e) : Parent(d, i) = e})

----------------------------------------------------------------------------
(* The location resolver.                                                  *)

\* the loop shared by text_before_first_lb and has_text_before_internal_lb:
\* "".join(texts) of the .text and .tail of the nodes of elem.iter() that
\* come before the first node whose tag ends in "lb"
RECURSIVE JoinTextsUntilLb(_)
JoinTextsUntilLb(nodes) ==
    IF nodes = <<>> THEN <<>>
    ELSE LET node == Head(nodes)
         IN IF IsStrTag(node) /\ EndsWithLb(node) THEN <<>>
            ELSE node.text \o node.tail \o JoinTextsUntilLb(Tail(nodes))

text_before_first_lb(elem) == Strip(JoinTextsUntilLb(Iter(elem)))

has_text_before_internal_lb(elem) == Strip(JoinTextsUntilLb(Iter(elem))) # <<>>

Returned(v) == [raised |-> FALSE, ret |-> v]
Raised == [raised |-> TRUE, ret |-> 0]

\* the for loop of _first_lb_child_before_content over the children
RECURSIVE ScanChildren(_, _)
ScanChildren(d, ords) ==
    IF ords = <<>> THEN Returned(0)
    ELSE LET elem == d[Head(ords)]
         IN IF elem.kind \in {"comment", "pi"} THEN ScanChildren(d, Tail(ords))
            \* elem.tag of any other non-element node is a function:
            \* elem.tag.endswith raises AttributeError, logged and re-raised
            ELSE IF ~ IsStrTag(elem) THEN Raised
            ELSE IF elem.tag \in {"pb", "note", "milestone"}
                 THEN ScanChildren(d, Tail(ords))
            ELSE IF elem.tag = "lb" THEN Returned(Head(ords))
            ELSE Returned(0)

first_lb_child_before_content(d, e) ==
    IF text_before_first_lb(d[e]) # <<>> THEN Returned(0)
    ELSE ScanChildren(d, ChildOrds(d, e))

\* SelectStart without the preference for the preceding marker: a segment
\* that starts with text starts at its own first marker
SelectStart_InnerFirst(d, e, lb0) ==
    LET previous_lbs == XPathPrecedingLb1(d, e)
        first_lbs == XPathDescLbFirst(d, e)
    IN IF lb0 # 0 THEN lb0
       ELSE IF first_lbs # <<>> THEN first_lbs[1]
       ELSE IF previous_lbs # <<>> THEN previous_lbs[1] ELSE 0

\* lines 42-69: the start marker, from the candidate lb0 of line 26
SelectStart(d, e, lb0) ==
    LET tb == has_text_before_internal_lb(d[e])
        previous_lbs == XPathPrecedingLb1(d, e)
        first_lbs == XPathDescLbFirst(d, e)
        lb1 == IF tb /\ lb0 # 0
               THEN (IF previous_lbs # <<>> THEN previous_lbs[1] ELSE lb0)
               ELSE lb0
    IN IF lb1 # 0 THEN lb1
       ELSE IF tb THEN (IF previous_lbs # <<>> THEN previous_lbs[1] ELSE 0)
       ELSE IF first_lbs # <<>> THEN first_lbs[1]
       ELSE IF previous_lbs # <<>> THEN previous_lbs[1] ELSE 0

\* line 71
LbN(d, m) == IF m # 0 THEN Get(d[m].a, "n") ELSE ""

\* lines 72-73
LastLbN(d, e) ==
    LET last_lb == XPathDescLbLast(d, e)
    IN IF last_lb # <<>> THEN Get(d[last_lb[Len(last_lb)]].a, "n") ELSE ""

\* ComposeLabel without the comparison of line 81
ComposeLabel_AlwaysRange(lb_n, last_lb_n) ==
    IF Falsy(last_lb_n) /\ Falsy(lb_n) THEN ""
    ELSE IF Falsy(lb_n) THEN last_lb_n
    ELSE IF Falsy(last_lb_n) THEN lb_n
    ELSE lb_n \o " - " \o last_lb_n

\* lines 75-83
ComposeLabel(lb_n, last_lb_n) ==
    IF Falsy(last_lb_n) /\ Falsy(lb_n) THEN ""
    ELSE IF Falsy(lb_n) THEN last_lb_n
    ELSE IF Falsy(last_lb_n) THEN lb_n
    ELSE IF lb_n # last_lb_n THEN lb_n \o " - " \o last_lb_n
    ELSE lb_n

\* the whole function, as process_tei_files calls it
compute_location_for_seg(d, e) ==
    LET r == first_lb_child_before_content(d, e)
    IN IF r.raised THEN [raised |-> TRUE, location |-> "", start |-> 0]
       ELSE LET m == SelectStart(d, e, r.ret)
            IN [raised |-> FALSE,
                location |-> ComposeLabel(LbN(d, m), LastLbN(d, e)),
                start |-> m]

----------------------------------------------------------------------------
(* Inputs of the resolver: a document of some line markers, one segment    *)
(* and the text after it.                                                  *)

X == <<"x">>
Sp == <<" ">>

N(v) == "n" :> v

\* what a note or an inline element holds
Contents == {<<Text(X)>>, <<Lb(N("1a1"))>>}

Items ==
    {Text(X), Text(Sp)}
    \cup {Lb(NoAttrs), Lb(N("1a1")), Lb(N("1a2"))}
    \cup {Pb, Milestone}
    \cup {Note(c) : c \in Contents}
    \cup {Hi(c) : c \in Contents}
    \cup {Comment(X), PI(<<>>), EntityRef}

SeqsUpTo(S, k) == UNION {[1 .. j -> S] : j \in 0 .. k}

\* the line markers before the segment
Prefixes == {<<>>, <<Lb(N("0a9")), Lb(N("1a1"))>>}

\* the character data after the segment's end tag
Tails == {<<>>, <<Text(X)>>}

SegAttrs == ("type" :> "excerpt") @@ ("xml:id" :> "s1")

ResolverDoc(p, c, t) == Parse(p \o <<Seg(SegAttrs, c)>> \o t)

\* ordinal of the first <seg> of a document
FirstSeg(d) == CHOOSE i \in 1 .. Len(d) : d[i].tag = "seg" /\ \A j \in 1 .. (i - 1) : d[j].tag # "seg"

----------------------------------------------------------------------------
(* compute_location_for_seg, step by step.                                 *)

D == DocOrder(doc)

CollectorIdle ==
    /\ tei_repo = <<>> /\ fi = 0 /\ seg_elements = <<>> /\ si = 0 /\ cpc = "idle"
    /\ excerpts = <<>> /\ out_file = <<>>

Init ==
    /\ \E p \in Prefixes, c \in SeqsUpTo(Items, MaxItems), t \in Tails :
          doc = ResolverDoc(p, c, t)
    /\ seg = FirstSeg(DocOrder(doc))
    /\ pc = "call"
    /\ lb = 0
    /\ text_before_internal_lb = FALSE
    /\ location = ""
    /\ CollectorIdle

\* line 26, when the call returns
CallFirstLb ==
    /\ pc = "call"
    /\ LET r == first_lb_child_before_content(D, seg)
       IN /\ ~ r.raised
          /\ lb' = r.ret
    /\ pc' = "select"
    /\ UNCHANGED <<doc, seg, text_before_internal_lb, location,
                   tei_repo, fi, seg_elements, si, cpc, excerpts, out_file>>

\* line 26, when the call raises: the exception leaves the function
CallFirstLbRaises ==
    /\ pc = "call"
    /\ first_lb_child_before_content(D, seg).raised
    /\ pc' = "raised"
    /\ UNCHANGED <<doc, seg, lb, text_before_internal_lb, location,
                   tei_repo, fi, seg_elements, si, cpc, excerpts, out_file>>

\* lines 42-69
SelectStartLb ==
    /\ pc = "select"
    /\ LET d == D
       IN /\ text_before_internal_lb' = has_text_before_internal_lb(d[seg])
          /\ lb' = SelectStart(d, seg, lb)
    /\ pc' = "compose"
    /\ UNCHANGED <<doc, seg, location, tei_repo, fi, seg_elements, si, cpc, excerpts, out_file>>

\* lines 71-83
Compose ==
    /\ pc = "compose"
    /\ LET d == D
       IN location' = ComposeLabel(LbN(d, lb), LastLbN(d, seg))
    /\ pc' = "done"
    /\ UNCHANGED <<doc, seg, lb, text_before_internal_lb,
                   tei_repo, fi, seg_elements, si, cpc, excerpts, out_file>>

Next == CallFirstLb \/ CallFirstLbRaises \/ SelectStartLb \/ Compose

Spec == Init /\ [][Next]_vars

\* the resolver on segments whose line markers belong to two editions
EdLb(n, ed) == Lb(("n" :> n) @@ ("edRef" :> ed))

EdItems == {Text(X), EdLb("1b1", "inst:5591"), EdLb("1b2", "inst:5591"),
            EdLb("2a1", "inst:OTHER"), EdLb("2a2", "inst:OTHER"),
            Note(<<EdLb("1b1", "inst:5591")>>), EntityRef}

EdPrefixes == {<<>>, <<EdLb("1b4", "inst:5591")>>}

InitEd ==
    /\ \E p \in EdPrefixes, c \in SeqsUpTo(EdItems, MaxItems + 2) :
          doc = ResolverDoc(p, c, <<Text(Sp)>>)
    /\ seg = FirstSeg(DocOrder(doc))
    /\ pc = "call"
    /\ lb = 0
    /\ text_before_internal_lb = FALSE
    /\ location = ""
    /\ CollectorIdle

SpecEd == InitEd /\ [][Next]_vars

----------------------------------------------------------------------------
(* Serialisation (etree.tostring) of a node, as a string.                  *)

RECURSIVE JoinChars(_)
JoinChars(cs) == IF cs = <<>> THEN "" ELSE Head(cs) \o JoinChars(Tail(cs))

AttrOrder == <<"type", "xml:id", "status", "n", "edRef">>

RECURSIVE AttrString(_, _)
AttrString(a, keys) ==
    IF keys = <<>> THEN ""
    ELSE (IF Head(keys) \in DOMAIN a
          THEN " " \o Head(keys) \o "=\"" \o a[Head(keys)] \o "\""
          ELSE "")
         \o AttrString(a, Tail(keys))

XmlNs == " xmlns=\"http://www.tei-c.org/ns/1.0\""

RECURSIVE Serialize(_, _)
RECURSIVE SerializeAll(_)
\* top: the node tostring was called on, which gets the namespace
\* declaration; the nodes below it are followed by their tails
Serialize(node, top) ==
    (CASE node.kind = "comment" -> "<!--" \o JoinChars(node.text) \o "-->"
       [] node.kind = "pi"      -> "<?p " \o JoinChars(node.text) \o "?>"
       [] node.kind = "entity"  -> JoinChars(node.text)
       [] OTHER ->
            LET open == "<" \o node.tag \o (IF top THEN XmlNs ELSE "")
                        \o AttrString(node.a, AttrOrder)
            IN IF node.text = <<>> /\ node.kids = <<>>
               THEN open \o "/>"
               ELSE open \o ">" \o JoinChars(node.text) \o SerializeAll(node.kids)
                    \o "</" \o node.tag \o ">")
    \o (IF top THEN "" ELSE JoinChars(node.tail))

SerializeAll(kids) ==
    IF kids = <<>> THEN ""
    ELSE Serialize(Head(kids), FALSE) \o SerializeAll(Tail(kids))

\* etree.tostring(seg, encoding="unicode", method="xml", with_tail=False)
tostring(node) == Serialize(node, TRUE)

----------------------------------------------------------------------------
(* process_tei_files.                                                      *)

\* os.path.basename of a path given as its components
Basename(path) == path[Len(path)]

\* tree.xpath('//tei:idno[@type=T]/text()'): the text of every such idno
RECURSIVE IdnoTexts(_, _)
IdnoTexts(d, ty) ==
    IF d = <<>> THEN <<>>
    ELSE (IF Head(d).kind = "element" /\ Head(d).tag = "idno"
             /\ Get(Head(d).a, "type") = ty /\ Head(d).text # <<>>
          THEN <<JoinChars(Head(d).text)>> ELSE <<>>)
         \o IdnoTexts(Tail(d), ty)

\* the query without its [@type="excerpt"] predicate
XPathAllSegs(d) ==
    Sorted({i \in 1 .. Len(d) : d[i].kind = "element" /\ d[i].tag = "seg"})

\* tree.xpath('//tei:seg[@type="excerpt"]'), in document order
XPathExcerptSegs(d) ==
    Sorted({i \in 1 .. Len(d) :
              d[i].kind = "element" /\ d[i].tag = "seg"
              /\ Get(d[i].a, "type") = "excerpt"})

\* "\n".join(set(refs)): the distinct references; the order in which a
\* Python set is joined is not fixed, so the field is kept as the set
JoinSet(refs) == {refs[i] : i \in DOMAIN refs}

\* lines 142-172 for the segment at ordinal e of file f, given the label
MakeRecord(f, d, e, loc) ==
    [source        |-> Basename(f.path),
     tibschol_refs |-> JoinSet(IdnoTexts(d, "TibSchol")),
     zotero_refs   |-> JoinSet(IdnoTexts(d, "Zotero")),
     xml_id        |-> Get(d[e].a, "xml:id"),
     status        |-> Get(d[e].a, "status"),
     location      |-> loc,
     xml_content   |-> "<TEI xmlns='http://www.tei-c.org/ns/1.0'>"
                       \o tostring(d[e]) \o "</TEI>"]

\* DataFrame.fillna(""), one row
FillNa(r) ==
    [k \in DOMAIN r |->
        IF k \in {"xml_id", "status"} /\ r[k] = None THEN "" ELSE r[k]]

----------------------------------------------------------------------------
(* Inputs of the collector.                                                *)

\* contents of the excerpt segments of the files: one that starts at its own
\* line marker, one that starts with text, one whose children make
\* _first_lb_child_before_content raise
CSegs == {<<Lb(N("1a1")), Text(X)>>,
          <<Text(X), Lb(N("1a2"))>>,
          <<Note(<<Lb(N("1a1"))>>), EntityRef>>}

Idno(ty, s) == Tok("idno", <<>>, "type" :> ty, <<Text(s)>>)

SegIds == <<"s1", "s2", "s3", "s4">>

\* the k-th excerpt of a file: only the first carries a status
ExcerptAttrs(k) ==
    IF k = 1
    THEN ("type" :> "excerpt") @@ ("xml:id" :> SegIds[k]) @@ ("status" :> "reviewed")
    ELSE ("type" :> "excerpt") @@ ("xml:id" :> SegIds[k])

RECURSIVE ExcerptToks(_, _)
ExcerptToks(cs, k) ==
    IF cs = <<>> THEN <<>>
    ELSE <<Seg(ExcerptAttrs(k), Head(cs)), Text(Sp)>> \o ExcerptToks(Tail(cs), k + 1)

\* a well-formed file: its references (one of them twice), a line marker,
\* the excerpts, each followed by white space, and a segment that is not an
\* excerpt
Body(tag, cs) ==
    <<Idno("TibSchol", <<"T", tag>>), Idno("TibSchol", <<"T", tag>>),
      Idno("Zotero", <<"Z", tag>>), Lb(N("0a9"))>>
    \o ExcerptToks(cs, 1)
    \o <<Seg("type" :> "quote", <<Lb(N("9z9"))>>)>>

FileTags == <<"1", "2", "3", "4">>

\* the files a run may be given: file i is data/f<i>.xml, either not
\* well-formed or holding some excerpts
FileAt(i, wf, cs) ==
    [path |-> <<"data", "f" \o FileTags[i] \o ".xml">>,
     wellformed |-> wf,
     body |-> IF wf THEN Body(FileTags[i], cs) ELSE <<>>]

\* the repository of k files that shares the excerpts cs among its
\* well-formed files: file i holds cs[cut[i-1]+1 .. cut[i]]
RepoOf(k, wf, cs, cut) ==
    [i \in 1 .. k |->
        FileAt(i, wf[i], SubSeq(cs, (IF i = 1 THEN 0 ELSE cut[i - 1]) + 1, cut[i]))]

\* cut shares all of cs among the files, and none to a file that is not
\* well-formed
IsSplit(k, wf, cs, cut) ==
    /\ \A i \in 1 .. k : (IF i = 1 THEN 0 ELSE cut[i - 1]) <= cut[i]
    /\ \A i \in 1 .. k : ~ wf[i] => cut[i] = (IF i = 1 THEN 0 ELSE cut[i - 1])
    /\ (IF k = 0 THEN 0 ELSE cut[k]) = Len(cs)

----------------------------------------------------------------------------
(* process_tei_files, one loop iteration per step.                         *)

ResolverIdle ==
    /\ doc = Parse(<<>>) /\ seg = 0 /\ pc = "idle" /\ lb = 0
    /\ text_before_internal_lb = FALSE /\ location = ""

\* the tree of file i, in document order
Tree(repo, i) == DocOrder(Parse(repo[i].body))

InitCollect ==
    /\ \E k \in 0 .. MaxFiles, cs \in SeqsUpTo(CSegs, MaxSegs) :
          \E wf \in [1 .. k -> BOOLEAN], cut \in [1 .. k -> 0 .. Len(cs)] :
             /\ IsSplit(k, wf, cs, cut)
             /\ tei_repo = RepoOf(k, wf, cs, cut)
    /\ fi = 0
    /\ seg_elements = <<>>
    /\ si = 0
    /\ cpc = "loop"
    /\ excerpts = <<>>
    /\ out_file = <<>>
    /\ ResolverIdle

\* the inner loop has gone through the segments of the current file
InnerLoopOver == si = Len(seg_elements)

\* lines 130-139: the next file parses
NextFile ==
    /\ cpc = "loop" /\ InnerLoopOver
    /\ fi < Len(tei_repo)
    /\ tei_repo[fi + 1].wellformed
    /\ fi' = fi + 1
    /\ seg_elements' = XPathExcerptSegs(Tree(tei_repo, fi + 1))
    /\ si' = 0
    /\ UNCHANGED <<tei_repo, cpc, excerpts, out_file,
                   doc, seg, pc, lb, text_before_internal_lb, location>>

\* lines 131-135: etree.parse raises, the file is reported and skipped
ParseFails ==
    /\ cpc = "loop" /\ InnerLoopOver
    /\ fi < Len(tei_repo)
    /\ ~ tei_repo[fi + 1].wellformed
    /\ fi' = fi + 1
    /\ seg_elements' = <<>>
    /\ si' = 0
    /\ UNCHANGED <<tei_repo, cpc, excerpts, out_file,
                   doc, seg, pc, lb, text_before_internal_lb, location>>

\* lines 141-172: one segment, compute_location_for_seg returns
ProcessSeg ==
    /\ cpc = "loop" /\ ~ InnerLoopOver
    /\ LET d == Tree(tei_repo, fi)
           e == seg_elements[si + 1]
           r == compute_location_for_seg(d, e)
       IN /\ ~ r.raised
          /\ excerpts' = Append(excerpts, MakeRecord(tei_repo[fi], d, e, r.location))
    /\ si' = si + 1
    /\ UNCHANGED <<tei_repo, fi, seg_elements, cpc, out_file,
                   doc, seg, pc, lb, text_before_internal_lb, location>>

\* line 146: compute_location_for_seg raises; nothing in process_tei_files
\* catches it, so the exception leaves the function
ProcessSegRaises ==
    /\ cpc = "loop" /\ ~ InnerLoopOver
    /\ compute_location_for_seg(Tree(tei_repo, fi), seg_elements[si + 1]).raised
    /\ cpc' = "raised"
    /\ UNCHANGED <<tei_repo, fi, seg_elements, si, excerpts, out_file,
                   doc, seg, pc, lb, text_before_internal_lb, location>>

\* lines 174-177: after the loop
WriteCsv ==
    /\ cpc = "loop" /\ InnerLoopOver
    /\ fi = Len(tei_repo)
    /\ out_file' = [i \in DOMAIN excerpts |-> FillNa(excerpts[i])]
    /\ cpc' = "written"
    /\ UNCHANGED <<tei_repo, fi, seg_elements, si, excerpts,
                   doc, seg, pc, lb, text_before_internal_lb, location>>

NextCollect == NextFile \/ ParseFails \/ ProcessSeg \/ ProcessSegRaises \/ WriteCsv

CollectSpec == InitCollect /\ [][NextCollect]_vars

----------------------------------------------------------------------------
(* Reading a document for the properties below: where character data and   *)
(* line markers lie, taken from the tree and not from the resolver.        *)

HasNonSpace(cs) == \E i \in DOMAIN cs : ~ IsSpace(cs[i])

\* the line markers inside e
InnerLbs(d, e) == {i \in Descendants(d, e) : IsTeiLb(d[i])}

\* ordinal of the first line marker inside e; past the end of e if none
FirstInnerLb(d, e) ==
    IF InnerLbs(d, e) = {} THEN e + d[e].size
    ELSE CHOOSE i \in InnerLbs(d, e) : \A j \in InnerLbs(d, e) : i <= j

\* ordinal of the last line marker inside e (0 if none)
LastInnerLb(d, e) ==
    IF InnerLbs(d, e) = {} THEN 0
    ELSE CHOOSE i \in InnerLbs(d, e) : \A j \in InnerLbs(d, e) : j <= i

\* the line markers before e
OuterLbs(d, e) == {i \in 1 .. (e - 1) : IsTeiLb(d[i])}

\* the nearest of them (0 if none)
NearestOuterLb(d, e) ==
    IF OuterLbs(d, e) = {} THEN 0
    ELSE CHOOSE i \in OuterLbs(d, e) : \A j \in OuterLbs(d, e) : j <= i

\* the nodes whose .text lies inside e and before its first line marker,
\* and those whose .tail does: the .text of a node follows its start tag,
\* its .tail follows its whole subtree; the tail of e itself is outside e
TextNodesBefore(d, e) ==
    {i \in {e} \cup Descendants(d, e) : i < FirstInnerLb(d, e)}

TailNodesBefore(d, e) ==
    {i \in Descendants(d, e) : i + d[i].size - 1 < FirstInnerLb(d, e)}

\* character data of elements inside e and before its first line marker
\* that is not white space
RealTextBeforeLb(d, e) ==
    \/ \E i \in TextNodesBefore(d, e) : d[i].kind = "element" /\ HasNonSpace(d[i].text)
    \/ \E i \in TailNodesBefore(d, e) : HasNonSpace(d[i].tail)

\* the same, with the content of comments, processing instructions and
\* entity references counted as text
AnyTextBeforeLb(d, e) ==
    \/ \E i \in TextNodesBefore(d, e) : HasNonSpace(d[i].text)
    \/ \E i \in TailNodesBefore(d, e) : HasNonSpace(d[i].tail)

\* the n of a marker as a label: empty when the marker or its n is missing
LabelOf(d, m) ==
    IF m = 0 THEN "" ELSE IF "n" \in DOMAIN d[m].a THEN d[m].a["n"] ELSE ""

\* the first lb child of e (0 if none)
FirstLbChild(d, e) ==
    LET C == {i \in InnerLbs(d, e) : Parent(d, i) = e}
    IN IF C = {} THEN 0 ELSE CHOOSE i \in C : \A j \in C : i <= j

\* the children of e before its first lb child
ChildrenBeforeLbChild(d, e) ==
    {i \in Descendants(d, e) : Parent(d, i) = e /\ i < FirstLbChild(d, e)}

\* the segment's own character data before its first lb child is white space
NoOwnTextBeforeLbChild(d, e) ==
    /\ ~ HasNonSpace(d[e].text)
    /\ \A i \in ChildrenBeforeLbChild(d, e) : ~ HasNonSpace(d[i].tail)

Resolved == pc = "done"

----------------------------------------------------------------------------
(* Properties of the resolver.                                             *)

\* C2: a segment with non-whitespace text before its first lb descendant
\* and with an lb before it in the document starts at the nearest preceding
\* lb, which is outside the segment, and ends at its last lb descendant
C2_TextStartUsesPrecedingLb ==
    LET d == D
    IN (RealTextBeforeLb(d, seg) /\ OuterLbs(d, seg) # {}) =>
          /\ pc # "raised"
          /\ Resolved =>
                /\ lb = NearestOuterLb(d, seg)
                /\ lb \notin Descendants(d, seg)
                /\ location = ComposeLabel(LabelOf(d, NearestOuterLb(d, seg)),
                                           LabelOf(d, LastInnerLb(d, seg)))

\* the case of the test: two markers before the segment, leading text, one
\* marker inside
C2_Witness ==
    /\ Resolved
    /\ RealTextBeforeLb(D, seg)
    /\ Cardinality(OuterLbs(D, seg)) = 2
    /\ InnerLbs(D, seg) # {}
    /\ location = "1a1 - 1a2"

\* C5: the label is empty when start and end labels are empty, the other
\* one when one is empty, the single label when they are equal, and
\* "<start> - <end>" when they differ; no lb inside and none before gives ""
C5_LabelComposition ==
    LET d == D
        s == LabelOf(d, lb)
        e == LabelOf(d, LastInnerLb(d, seg))
    IN Resolved =>
          /\ (s = "" /\ e = "") => location = ""
          /\ (s = "" /\ e # "") => location = e
          /\ (s # "" /\ e = "") => location = s
          /\ (s # "" /\ e # "" /\ s = e) => location = s
          /\ (s # "" /\ e # "" /\ s # e) => location = s \o " - " \o e
          /\ (InnerLbs(d, seg) = {} /\ OuterLbs(d, seg) = {}) => location = ""

\* start and end are different markers with the same n
C5_Witness ==
    /\ Resolved
    /\ lb # 0 /\ lb \notin Descendants(D, seg)
    /\ LastInnerLb(D, seg) # 0
    /\ LabelOf(D, lb) = LabelOf(D, LastInnerLb(D, seg))
    /\ location = "1a1"

\* C3: when everything before the first lb child is pb, note or milestone,
\* and the segment has no text of its own there, the start label is the n
\* of that lb
C3_StructuralMarkersTransparent ==
    LET d == D
        f == FirstLbChild(d, seg)
    IN (/\ Resolved
        /\ f # 0
        /\ \A i \in ChildrenBeforeLbChild(d, seg) :
              d[i].kind = "element" /\ d[i].tag \in {"pb", "note", "milestone"}
        /\ NoOwnTextBeforeLbChild(d, seg))
       => LabelOf(d, lb) = LabelOf(d, f)

\* C10: when only comments and processing instructions come before the
\* first lb child, and no text of the segment, the start label is the n of
\* that lb
C10_CommentsSkipped ==
    LET d == D
        f == FirstLbChild(d, seg)
    IN (/\ Resolved
        /\ f # 0
        /\ \A i \in ChildrenBeforeLbChild(d, seg) : d[i].kind \in {"comment", "pi"}
        /\ NoOwnTextBeforeLbChild(d, seg))
       => LabelOf(d, lb) = LabelOf(d, f)

\* C4: a segment that holds one lb and nothing else resolves to its n
C4_SingleLb ==
    LET d == D
    IN (/\ Resolved
        /\ d[seg].size = 2
        /\ IsTeiLb(d[seg + 1])
        /\ d[seg].text = <<>>)
       => location = LabelOf(d, seg + 1)

\* C9: text counts for "starts with text" only when it lies inside the
\* segment and before its first lb; without such text the start is not
\* moved from an inner lb to the preceding one
C9_OnlyLeadingTextCounts ==
    LET d == D
    IN (Resolved /\ ~ AnyTextBeforeLb(d, seg)) =>
          /\ ~ text_before_internal_lb
          /\ InnerLbs(d, seg) # {} => lb \in Descendants(d, seg)

----------------------------------------------------------------------------
(* Grouping by edition.                                                    *)

\* the runs of a list of markers: maximal stretches with the same edRef,
\* each as <<first, last>>
RECURSIVE RunsOf(_, _, _)
RunsOf(d, ords, run) ==
    IF ords = <<>> THEN <<run>>
    ELSE IF Get(d[Head(ords)].a, "edRef") = Get(d[run[2]].a, "edRef")
         THEN RunsOf(d, Tail(ords), <<run[1], Head(ords)>>)
         ELSE <<run>> \o RunsOf(d, Tail(ords), <<Head(ords), Head(ords)>>)

EditionRuns(d, e) ==
    LET ords == Sorted(InnerLbs(d, e))
    IN IF ords = <<>> THEN <<>>
       ELSE RunsOf(d, Tail(ords), <<Head(ords), Head(ords)>>)

\* the start of the first run is the preceding marker when the segment
\* begins with text
GroupedRuns(d, e) ==
    LET runs == EditionRuns(d, e)
    IN IF runs # <<>> /\ RealTextBeforeLb(d, e) /\ OuterLbs(d, e) # {}
       THEN <<<<NearestOuterLb(d, e), runs[1][2]>>>> \o Tail(runs)
       ELSE runs

RECURSIVE JoinRuns(_, _)
JoinRuns(d, runs) ==
    IF runs = <<>> THEN ""
    ELSE LabelOf(d, Head(runs)[1]) \o " - " \o LabelOf(d, Head(runs)[2])
         \o (IF Tail(runs) = <<>> THEN "" ELSE "; " \o JoinRuns(d, Tail(runs)))

\* C1: when the markers inside the segment carry an edRef and the edRef
\* changes along them, the label has one "start - end" per run of markers
\* of one edition, joined by "; " (stated for runs whose start and end
\* labels differ)
C1_GroupsByEdition ==
    LET d == D
        runs == GroupedRuns(d, seg)
    IN (/\ Resolved
        /\ \A i \in InnerLbs(d, seg) : "edRef" \in DOMAIN d[i].a
        /\ Len(runs) >= 2
        /\ \A k \in DOMAIN runs : LabelOf(d, runs[k][1]) # LabelOf(d, runs[k][2]))
       => location = JoinRuns(d, runs)

----------------------------------------------------------------------------
(* Properties of the collector.                                            *)

\* the excerpt segments of a file, read from its source: the xml:id of
\* every <seg type="excerpt"> in the order they are written
RECURSIVE ExcerptIds(_)
ExcerptIds(body) ==
    IF body = <<>> THEN <<>>
    ELSE (IF Head(body).t = "seg" /\ Get(Head(body).a, "type") = "excerpt"
          THEN <<Get(Head(body).a, "xml:id")>> ELSE <<>>)
         \o ExcerptIds(Tail(body))

\* the references of one kind written in a file
SourceRefs(body, ty) ==
    {JoinChars(body[i].c[1].s) :
        i \in {j \in DOMAIN body : body[j].t = "idno" /\ Get(body[j].a, "type") = ty}}

\* what the records of the first k excerpts of file i must be
RowsOfFile(repo, i, k) ==
    IF ~ repo[i].wellformed THEN <<>>
    ELSE LET ids  == ExcerptIds(repo[i].body)
             d    == Tree(repo, i)
             segs == XPathExcerptSegs(d)
         IN [j \in 1 .. (IF k < Len(ids) THEN k ELSE Len(ids)) |->
                [source        |-> Basename(repo[i].path),
                 tibschol_refs |-> SourceRefs(repo[i].body, "TibSchol"),
                 zotero_refs   |-> SourceRefs(repo[i].body, "Zotero"),
                 xml_id        |-> ids[j],
                 status        |-> Get(d[segs[j]].a, "status"),
                 location      |-> compute_location_for_seg(d, segs[j]).location,
                 xml_content   |-> "<TEI xmlns='http://www.tei-c.org/ns/1.0'>"
                                   \o tostring(d[segs[j]]) \o "</TEI>"]]

\* the rows of files 1 .. i-1 and of the first k excerpts of file i
RECURSIVE RowsUpTo(_, _, _)
RowsUpTo(repo, i, k) ==
    IF i = 0 THEN <<>>
    ELSE (IF i = 1 THEN <<>>
          ELSE RowsUpTo(repo, i - 1, Len(ExcerptIds(repo[i - 1].body))))
         \o RowsOfFile(repo, i, k)

\* C8: whatever part of the input has been processed, the output is one
\* record per excerpt of each well-formed file, files in input order,
\* excerpts in document order, each with the references of its own file;
\* a file that does not parse adds nothing and does not stop the loop
C8_CollectionLoopInvariant ==
    /\ excerpts = RowsUpTo(tei_repo, fi, si)
    /\ (cpc = "written" =>
          Len(out_file) = Len(excerpts) /\ fi = Len(tei_repo))

\* a file that does not parse, then the two excerpts of the next file
C8_Witness ==
    /\ cpc = "written"
    /\ Len(tei_repo) = 2
    /\ ~ tei_repo[1].wellformed
    /\ Len(excerpts) = 2
    /\ excerpts[1].source = "f2.xml" /\ excerpts[1].xml_id = "s1"
    /\ excerpts[2].source = "f2.xml" /\ excerpts[2].xml_id = "s2"
    /\ excerpts[1].tibschol_refs = {"T2"}

\* the excerpt at ordinal e of tree d makes the resolver raise
Raises(d, e) == compute_location_for_seg(d, e).raised

\* C6: when the run is over, every excerpt whose resolution does not raise
\* has its record, whatever happened to the other excerpts
C6_FailureIsolated ==
    cpc \in {"raised", "written"} =>
       \A i \in DOMAIN tei_repo :
          tei_repo[i].wellformed =>
             LET d == Tree(tei_repo, i)
             IN \A e \in {x \in DOMAIN d : d[x].tag = "seg" /\ Get(d[x].a, "type") = "excerpt"} :
                   ~ Raises(d, e) =>
                      \E j \in DOMAIN excerpts :
                         /\ excerpts[j].source = Basename(tei_repo[i].path)
                         /\ excerpts[j].xml_id = Get(d[e].a, "xml:id")

\* C7: the fragment of a record holds, inside the TEI wrapper, the start
\* marker when it lies outside the segment, and then the segment
C7_FragmentHoldsOuterMarker ==
    (cpc = "loop" /\ si >= 1) =>
       LET d == Tree(tei_repo, fi)
           e == seg_elements[si]
           m == compute_location_for_seg(d, e).start
           r == excerpts[Len(excerpts)]
       IN r.xml_content =
             "<TEI xmlns='http://www.tei-c.org/ns/1.0'>"
             \o (IF m # 0 /\ m \notin Descendants(d, e) THEN tostring(d[m]) ELSE "")
             \o tostring(d[e]) \o "</TEI>"

=============================================================================
